---- MODULE Spec2Model ----
(***************************************************************************)
(* pBTC buyback-and-distribution pipeline.                                 *)
(*                                                                         *)
(* A request to one of the entry points (the scheduled cron route, the     *)
(* manual trigger route, the manual trigger route with the buy step) runs  *)
(* one cycle: vault and wallet balance, claim, (buy,) wrap, holder         *)
(* ranking, snapshot replacement, distribution, persistence.  Every await  *)
(* of the handlers is a step; the outcome of an external call (RPC, venue, *)
(* chain-data provider) is chosen by the environment in that step.         *)
(*                                                                         *)
(* Amounts are exact: SOL amounts are counted in lamports (1 SOL = 1e9     *)
(* lamports), token balances in whole units, and a quotient is kept as a   *)
(* numerator/denominator pair [n, d] until the code floors it.  The        *)
(* rounding of IEEE doubles (below one part in 1e15) is not represented.   *)
(***************************************************************************)
EXTENDS Integers, Sequences, FiniteSets, TLC

VARIABLES
    loc,            \* per entry point: position and locals of the running handler
    buybacks,       \* table buybacks (row id = index)
    holdersTbl,     \* table holders
    distributions,  \* table distributions
    activity_log,   \* table activity_log
    cycles,         \* requests started so far
    env,            \* process environment: which settings are configured
    reads           \* what the last GET of the holders route read from the table

tables == <<buybacks, holdersTbl, distributions, activity_log>>
vars == <<loc, buybacks, holdersTbl, distributions, activity_log, cycles, env, reads>>

----------------------------------------------------------------------------
(* Bounds of the model *)

MaxCycles == 1
MaxAccounts == 3
MaxBalance == 2
MaxAmount == 3
MaxBuyRetries == 3
MaxOverlap == 2

(* Program constants, in lamports *)

FeeReserve == 10000000
MinRemaining == 1000000
CLAIM_THRESHOLD_SOL == 100000000
TopN == 25
MaxRetries == 3
BuyRetries == 3
BaseSlippage == 15
SlippageStep == 5

Procs == {"cron", "admin", "admin7"}
Wallets == {"w1", "w2"}
AccountAddr == <<"a1", "a2", "a3", "a4">>

Max(a, b) == IF a >= b THEN a ELSE b
Min(a, b) == IF a <= b THEN a ELSE b

RECURSIVE SumSeq(_)
SumSeq(s) == IF s = <<>> THEN 0 ELSE Head(s) + SumSeq(Tail(s))

(* An amount of SOL as a quotient of lamports *)
Amt(n, d) == [n |-> n, d |-> d]
Whole(x) == Amt(x, 1)
Zero == Whole(0)
Floor(a) == a.n \div a.d

(* Every setting configured: HELIUS_API_KEY, PBTC_TOKEN_MINT, CRON_SECRET *)
DefaultEnv == [apiKey |-> TRUE, mint |-> TRUE, cronSecret |-> TRUE]

(* The response of a handler: HTTP status, the success field of the body
   (absent in the error bodies, which have an error field) and which return
   statement produced it *)
Response(status, success, kind) == [status |-> status, success |-> success, kind |-> kind]
NoResponse == Response(0, FALSE, "none")

(* No GET of the holders route has read the table yet *)
NoRead == [done |-> FALSE, rows |-> <<>>, gap |-> FALSE]

(* The locals of a handler that is not running *)
IdleLoc ==
    [pc |-> "idle", response |-> NoResponse, authMismatch |-> FALSE,
     vaultBalance |-> 0, walletBalance |-> 0,
     claim |-> [success |-> FALSE, amount |-> 0, error |-> "none"], venueCalls |-> 0,
     solAmount |-> 0, buyback |-> 0,
     buy |-> [tried |-> FALSE, success |-> FALSE, solSpent |-> Zero],
     retries |-> BuyRetries, battempt |-> 1, buyLog |-> <<>>,
     swap |-> [tried |-> FALSE, success |-> FALSE, input |-> Zero, outputAmount |-> Zero,
               lamports |-> 0],
     accounts |-> <<>>, gi |-> 0, attempt |-> 0, lastError |-> "none", found |-> <<>>, lookups |-> <<>>,
     holders |-> <<>>, replaced |-> FALSE,
     wsolAmount |-> Zero, totalHoldings |-> 0, di |-> 0, results |-> <<>>, transfers |-> <<>>,
     pi |-> 0]

----------------------------------------------------------------------------
(* distributeToHolders *)

(* holders.reduce((sum, h) => sum + h.balance, 0) *)
TotalHoldings(holders) == SumSeq([i \in 1..Len(holders) |-> holders[i].balance])

(* The proportion alone, not multiplied by the amount *)
ShareProportionOnly(balance, totalHoldings, wsolAmount) ==
    IF totalHoldings = 0
    THEN [nan |-> TRUE, n |-> 0, d |-> 1]
    ELSE [nan |-> FALSE, n |-> balance, d |-> totalHoldings]

(* (holder.balance / totalHoldings) * wsolAmount; 0 / 0 is NaN *)
Share(balance, totalHoldings, wsolAmount) ==
    IF totalHoldings = 0
    THEN [nan |-> TRUE, n |-> 0, d |-> 1]
    ELSE [nan |-> FALSE, n |-> balance * wsolAmount.n, d |-> totalHoldings * wsolAmount.d]

(* Math.ceil in place of Math.floor *)
ShareLamportsCeil(share) ==
    [nan |-> share.nan,
     v |-> IF share.nan THEN 0 ELSE (share.n + share.d - 1) \div share.d]

(* Math.floor(share * 1e9): the share in lamports; NaN stays NaN *)
ShareLamports(share) ==
    [nan |-> share.nan, v |-> IF share.nan THEN 0 ELSE share.n \div share.d]

(* The check for a zero share left out *)
ShareTooSmallNever(shareLamports) == FALSE

(* shareLamports <= 0, which is false of NaN *)
ShareTooSmall(shareLamports) == ~shareLamports.nan /\ shareLamports.v <= 0

(* The amount a result reports: share on success, 0 otherwise *)
ReportedAmount(share) == Amt(share.n, share.d)

(* What the environment does to one transfer: the destination address is
   rejected (new PublicKey / getAssociatedTokenAddress throw), the
   transaction is confirmed (with or without creating the destination
   account), or sendAndConfirmTransaction throws: with the account creation
   in the transaction (create_fails) or without it (tx_fails: execution
   error, network error, confirmation timeout). *)
TransferOutcomes == {"bad_address", "sent", "sent_create", "create_fails", "tx_fails"}

FailResult(wallet, error) ==
    [wallet |-> wallet, amount |-> Zero, success |-> FALSE, error |-> error]

OkResult(wallet, share) ==
    [wallet |-> wallet, amount |-> ReportedAmount(share), success |-> TRUE, error |-> "none"]

(* The catch block pushing nothing *)
HolderResultNoPushInCatch(holder, totalHoldings, wsolAmount, outcome) ==
    LET share == Share(holder.balance, totalHoldings, wsolAmount)
        shareLamports == ShareLamports(share)
    IN  IF ShareTooSmall(shareLamports)
        THEN << FailResult(holder.wallet, "Share too small") >>
        ELSE IF outcome \in {"sent", "sent_create"} /\ ~shareLamports.nan
        THEN << OkResult(holder.wallet, share) >>
        ELSE <<>>

(* One iteration of the loop over holders: what it pushes on results *)
HolderResult(holder, totalHoldings, wsolAmount, outcome) ==
    LET share == Share(holder.balance, totalHoldings, wsolAmount)
        shareLamports == ShareLamports(share)
    IN  IF ShareTooSmall(shareLamports)
        THEN << FailResult(holder.wallet, "Share too small") >>
        ELSE IF outcome = "bad_address" THEN << FailResult(holder.wallet, "bad_address") >>
        ELSE IF shareLamports.nan THEN << FailResult(holder.wallet, "nan_amount") >>
        ELSE IF outcome \in {"sent", "sent_create"} THEN << OkResult(holder.wallet, share) >>
        ELSE << FailResult(holder.wallet, "transfer_failed") >>

(* A transfer built for whatever the share came to *)
HolderTransferUnguarded(idx, holder, totalHoldings, wsolAmount, outcome) ==
    LET shareLamports == ShareLamports(Share(holder.balance, totalHoldings, wsolAmount))
    IN  IF outcome = "bad_address"
        THEN <<>>
        ELSE << [idx |-> idx, to |-> holder.wallet, lamports |-> shareLamports.v,
                 create |-> outcome \in {"sent_create", "create_fails"},
                 ok |-> outcome \in {"sent", "sent_create"}] >>

(* One iteration of the loop over holders: the transfer it submits to the
   chain, if it submits one (idx is the holder's place in the input) *)
HolderTransfer(idx, holder, totalHoldings, wsolAmount, outcome) ==
    LET shareLamports == ShareLamports(Share(holder.balance, totalHoldings, wsolAmount))
    IN  IF ShareTooSmall(shareLamports) \/ outcome = "bad_address" \/ shareLamports.nan
        THEN <<>>
        ELSE << [idx |-> idx, to |-> holder.wallet, lamports |-> shareLamports.v,
                 create |-> outcome \in {"sent_create", "create_fails"},
                 ok |-> outcome \in {"sent", "sent_create"}] >>

(* const totalHoldings = ...; const sourceAta = await getAssociatedTokenAddress(...) *)
DistStart(p) ==
    /\ loc[p].pc = "dist_start"
    /\ loc' = [loc EXCEPT ![p] = [@ EXCEPT
                  !.pc = "dist_loop",
                  !.totalHoldings = TotalHoldings(loc[p].holders),
                  !.di = 0, !.results = <<>>, !.transfers = <<>>]]
    /\ UNCHANGED <<tables, cycles, env, reads>>

(* The total taken anew in every iteration, over the holders still to come *)
DistributeHolderRecomputes(p) ==
    /\ loc[p].pc = "dist_loop"
    /\ loc[p].di < Len(loc[p].holders)
    /\ \E outcome \in TransferOutcomes :
          LET holder == loc[p].holders[loc[p].di + 1]
              total == TotalHoldings(SubSeq(loc[p].holders, loc[p].di + 1,
                                            Len(loc[p].holders)))
          IN  loc' = [loc EXCEPT ![p] = [@ EXCEPT
                  !.di = @ + 1,
                  !.results = @ \o HolderResult(holder, total, loc[p].wsolAmount, outcome),
                  !.transfers = @ \o HolderTransfer(loc[p].di + 1, holder, total,
                                                    loc[p].wsolAmount, outcome)]]
    /\ UNCHANGED <<tables, cycles, env, reads>>

(* The loop ending at the first transfer that fails *)
DistributeHolderAbort(p) ==
    /\ loc[p].pc = "dist_loop"
    /\ loc[p].di < Len(loc[p].holders)
    /\ \E outcome \in TransferOutcomes :
          LET holder == loc[p].holders[loc[p].di + 1]
              res == HolderResult(holder, loc[p].totalHoldings, loc[p].wsolAmount, outcome)
          IN  loc' = [loc EXCEPT ![p] = [@ EXCEPT
                  !.di = IF res[1].success \/ res[1].error = "Share too small"
                         THEN @ + 1 ELSE Len(loc[p].holders),
                  !.results = @ \o res,
                  !.transfers = @ \o HolderTransfer(loc[p].di + 1, holder,
                                        loc[p].totalHoldings, loc[p].wsolAmount, outcome)]]
    /\ UNCHANGED <<tables, cycles, env, reads>>

(* for (const holder of holders) { try { ... } catch { ... } } *)
DistributeHolder(p) ==
    /\ loc[p].pc = "dist_loop"
    /\ loc[p].di < Len(loc[p].holders)
    /\ \E outcome \in TransferOutcomes :
          LET holder == loc[p].holders[loc[p].di + 1]
          IN  loc' = [loc EXCEPT ![p] = [@ EXCEPT
                  !.di = @ + 1,
                  !.results = @ \o HolderResult(holder, loc[p].totalHoldings,
                                                loc[p].wsolAmount, outcome),
                  !.transfers = @ \o HolderTransfer(loc[p].di + 1, holder,
                                        loc[p].totalHoldings, loc[p].wsolAmount, outcome)]]
    /\ UNCHANGED <<tables, cycles, env, reads>>

(* return results *)
DistReturn(p) ==
    /\ loc[p].pc = "dist_loop"
    /\ loc[p].di = Len(loc[p].holders)
    /\ loc' = [loc EXCEPT ![p] = [@ EXCEPT !.pc = "dist_ret"]]
    /\ UNCHANGED <<tables, cycles, env, reads>>

(* The holder lists and amounts distributeToHolders is applied to *)
Holder(w, b, r) == [wallet |-> w, balance |-> b, rank |-> r]

HolderLists ==
    UNION { { [i \in 1..n |-> Holder(ws[i], bs[i], i)] :
                ws \in [1..n -> Wallets], bs \in [1..n -> 0..MaxBalance] } :
            n \in 0..MaxAccounts }

InitDist ==
    /\ \E hs \in HolderLists, a \in 0..MaxAmount :
          loc = [p \in Procs |->
                   IF p = "cron"
                   THEN [IdleLoc EXCEPT !.pc = "dist_start", !.holders = hs,
                                        !.wsolAmount = Whole(a)]
                   ELSE IdleLoc]
    /\ buybacks = <<>>
    /\ holdersTbl = <<>>
    /\ distributions = <<>>
    /\ activity_log = <<>>
    /\ cycles = 0
    /\ reads = NoRead
    /\ env = DefaultEnv

NextDist == DistStart("cron") \/ DistributeHolder("cron") \/ DistReturn("cron")

SpecDist == InitDist /\ [][NextDist]_vars

----------------------------------------------------------------------------
(* getTopHolders, retryWithBackoff, getTokenAccountOwner *)

(* What a request to the chain-data provider can throw: an HTTP 429
   ("Helius API rate limit: 429"), a JSON-RPC rate-limit error -32005 whose
   message does not hold the text 429, a network error raised by fetch *)
ThrownErrors == {"http_429", "rpc_32005", "network"}

(* error?.message?.includes("429") || error?.status === 429 *)
IsRateLimit(error) == error = "http_429"

(* Every error retried while attempts are left *)
RetriesAgainAnyError(error, attempt) == attempt < MaxRetries - 1

(* One failed attempt inside retryWithBackoff: TRUE when the loop goes on
   to another attempt, FALSE when the error is thrown to the caller.  The
   callers keep in attempt the failed calls of the running retryWithBackoff
   and in lastError the error the latest retry followed. *)
RetriesAgain(error, attempt) == IsRateLimit(error) /\ attempt < MaxRetries - 1

(* The token accounts getTokenLargestAccounts can return: largest first *)
Account(i, ui) == [address |-> AccountAddr[i], uiAmount |-> ui]

AccountLists ==
    UNION { { [i \in 1..n |-> Account(i, bs[i])] :
                bs \in { f \in [1..n -> 0..MaxBalance] :
                           \A i \in 1..n : \A j \in 1..n : i < j => f[i] >= f[j] } } :
            n \in 0..MaxAccounts }

(* accounts.slice(0, 25) *)
Top25(accounts) == SubSeq(accounts, 1, Min(Len(accounts), TopN))

(* What one owner lookup answers when it does not throw: the owner wallet,
   or nothing (HTTP error other than 429, RPC error, no parsed owner) *)
NoOwner == "none"
OwnerAnswers == Wallets \cup {NoOwner}

(* The token account's own address stored as the wallet *)
PushHolderTokenAccount(account, owner, pos) ==
    << [wallet |-> account.address, balance |-> account.uiAmount, rank |-> pos + 1] >>

(* if (owner) holders.push({ wallet: owner, balance: account.uiAmount || 0,
   rank: i + j + 1 }); pos is i + j, the account's place in top25Accounts *)
PushHolder(account, owner, pos) ==
    IF owner # NoOwner
    THEN << [wallet |-> owner, balance |-> account.uiAmount, rank |-> pos + 1] >>
    ELSE <<>>

(* The return of getTopHolders *)
GthReturn(p, result) ==
    [loc EXCEPT ![p] = [@ EXCEPT !.pc = "gth_ret", !.holders = result]]

(* if (!HELIUS_API_KEY) return []; if (!PBTC_TOKEN_MINT) return [] *)
GthStart(p) ==
    /\ loc[p].pc = "gth_start"
    /\ loc' = IF env.apiKey /\ env.mint
              THEN [loc EXCEPT ![p] = [@ EXCEPT
                       !.pc = "gth_fetch", !.attempt = 0, !.accounts = <<>>,
                       !.gi = 0, !.found = <<>>, !.lookups = <<>>]]
              ELSE GthReturn(p, <<>>)
    /\ UNCHANGED <<tables, cycles, env, reads>>

(* The error of the last attempt leaving getTopHolders uncaught *)
GthFetchThrows(p) ==
    /\ loc[p].pc = "gth_fetch"
    /\ \/ \E accounts \in AccountLists :
             loc' = IF accounts = <<>>
                    THEN GthReturn(p, <<>>)
                    ELSE [loc EXCEPT ![p] = [@ EXCEPT
                             !.pc = "gth_owner", !.accounts = Top25(accounts),
                             !.attempt = 0, !.lastError = "none", !.gi = 0]]
       \/ \E error \in ThrownErrors :
             loc' = IF RetriesAgain(error, loc[p].attempt)
                    THEN [loc EXCEPT ![p] = [@ EXCEPT !.attempt = @ + 1,
                                                     !.lastError = error]]
                    ELSE [loc EXCEPT ![p] =
                            [@ EXCEPT !.pc = "done",
                                      !.response = [status |-> 500, success |-> FALSE,
                                                    kind |-> "error"]]]
    /\ UNCHANGED <<tables, cycles, env, reads>>

(* One attempt of retryWithBackoff around getTokenLargestAccounts *)
GthFetch(p) ==
    /\ loc[p].pc = "gth_fetch"
    /\ \/ \E accounts \in AccountLists :
             loc' = IF accounts = <<>>
                    THEN GthReturn(p, <<>>)
                    ELSE [loc EXCEPT ![p] = [@ EXCEPT
                             !.pc = "gth_owner", !.accounts = Top25(accounts),
                             !.attempt = 0, !.lastError = "none", !.gi = 0]]
       \/ \E error \in ThrownErrors :
             loc' = IF RetriesAgain(error, loc[p].attempt)
                    THEN [loc EXCEPT ![p] = [@ EXCEPT !.attempt = @ + 1,
                                                     !.lastError = error]]
                    ELSE GthReturn(p, <<>>)
    /\ UNCHANGED <<tables, cycles, env, reads>>

(* One attempt of retryWithBackoff inside getTokenAccountOwner, for the
   account at place gi: an answer ends the lookup; a thrown error is retried
   or leaves getTokenAccountOwner and is caught by getTopHolders *)
GthOwner(p) ==
    /\ loc[p].pc = "gth_owner"
    /\ loc[p].gi < Len(loc[p].accounts)
    /\ \/ \E owner \in OwnerAnswers :
             loc' = [loc EXCEPT ![p] = [@ EXCEPT
                       !.found = @ \o PushHolder(loc[p].accounts[loc[p].gi + 1], owner,
                                                 loc[p].gi),
                       !.lookups = Append(@, owner),
                       !.gi = @ + 1, !.attempt = 0, !.lastError = "none"]]
       \/ \E error \in ThrownErrors :
             loc' = IF RetriesAgain(error, loc[p].attempt)
                    THEN [loc EXCEPT ![p] = [@ EXCEPT !.attempt = @ + 1,
                                                     !.lastError = error]]
                    ELSE [GthReturn(p, <<>>) EXCEPT ![p].lookups =
                             Append(@, IF IsRateLimit(error) THEN "rate_limited"
                                       ELSE "threw")]
    /\ UNCHANGED <<tables, cycles, env, reads>>

(* return holders *)
GthDone(p) ==
    /\ loc[p].pc = "gth_owner"
    /\ loc[p].gi = Len(loc[p].accounts)
    /\ loc' = GthReturn(p, loc[p].found)
    /\ UNCHANGED <<tables, cycles, env, reads>>

InitHolders ==
    /\ loc = [p \in Procs |->
                IF p = "cron" THEN [IdleLoc EXCEPT !.pc = "gth_start"] ELSE IdleLoc]
    /\ buybacks = <<>>
    /\ holdersTbl = <<>>
    /\ distributions = <<>>
    /\ activity_log = <<>>
    /\ cycles = 0
    /\ reads = NoRead
    /\ env \in {DefaultEnv, [DefaultEnv EXCEPT !.mint = FALSE],
                [DefaultEnv EXCEPT !.apiKey = FALSE]}

NextHolders == GthStart("cron") \/ GthFetch("cron") \/ GthOwner("cron") \/ GthDone("cron")

SpecHolders == InitHolders /\ [][NextHolders]_vars

----------------------------------------------------------------------------
(* claimCreatorRewards *)

(* Lamports the RPC node can report for the creator vault (0, 0.0105 and
   0.15 SOL) and for the operator wallet (0.005 and 0.05 SOL) *)
VaultBalances == {0, 10500000, 150000000}
WalletBalances == {5000000, 50000000}

(* What happens once the claim request is posted to the venue: the venue
   answers with a transaction that confirms, or one that fails or an RPC
   call that throws; the venue answers not-ok and the direct withdrawal
   goes through or fails; the request to the venue itself throws *)
ClaimOutcomes == {"confirmed", "tx_fails", "fallback_ok", "fallback_fails", "venue_unreachable"}

(* claimCreatorRewards with the vault balance it queries itself; venue is
   the number of requests posted to the venue *)
ClaimCreatorRewards(balance, outcome) ==
    IF balance <= 0
    THEN [success |-> FALSE, amount |-> 0, error |-> "No rewards to claim", venue |-> 0]
    ELSE IF outcome \in {"confirmed", "fallback_ok"}
    THEN [success |-> TRUE, amount |-> balance, error |-> "none", venue |-> 1]
    ELSE [success |-> FALSE, amount |-> 0, error |-> "Claim failed", venue |-> 1]

----------------------------------------------------------------------------
(* POST of the cron route ("cron"), of the admin trigger route ("admin") and
   of the admin trigger route with the buy step ("admin7") *)

Running(p) == loc[p].pc \notin {"idle", "done"}

Return(l, response) == [l EXCEPT !.pc = "done", !.response = response]

Unauthorized == Response(401, FALSE, "unauthorized")
ServerError == Response(500, FALSE, "error")

(* Math.max(0, walletBalanceSol - 0.01) *)
AvailableBalance(walletBalance) == Max(0, walletBalance - FeeReserve)

(* The amount the cycle goes on with after the claim, or the response it
   ends with: claimed amount, else wallet balance less the reserve, else
   the no-funds response of the route *)
AcquireFunds(p, l, claim) ==
    IF p = "admin"
    THEN IF ~claim.success THEN Return(l, ServerError)
         ELSE [l EXCEPT !.pc = "insert_buyback", !.solAmount = claim.amount]
    ELSE IF claim.success /\ claim.amount # 0
    THEN [l EXCEPT !.pc = "insert_buyback", !.solAmount = claim.amount]
    ELSE IF AvailableBalance(l.walletBalance) > 0
    THEN [l EXCEPT !.pc = "insert_buyback", !.solAmount = AvailableBalance(l.walletBalance)]
    ELSE IF p = "cron" THEN Return(l, Response(200, TRUE, "skipped"))
    ELSE Return(l, Response(400, FALSE, "no_funds"))

(* The comparison made and its result not acted upon *)
ArriveUnchecked(p, cap) ==
    /\ cycles < cap
    /\ ~Running(p)
    /\ cycles' = cycles + 1
    /\ \E authorized \in BOOLEAN :
          loc' = [loc EXCEPT ![p] =
                    [IdleLoc EXCEPT !.pc = "keypair",
                        !.authMismatch = p = "cron" /\ env.cronSecret /\ ~authorized]]
    /\ UNCHANGED <<tables, env, reads>>

(* A request arrives at route p, at most cap requests in all; authorized
   tells whether its authorization header is the bearer form of
   CRON_SECRET.  The cron route compares the two when CRON_SECRET is set
   and keeps in authMismatch that they differed; the admin routes never
   read the header.  No route looks whether another request is being
   handled. *)
ArriveWith(p, cap, authorized) ==
    /\ cycles < cap
    /\ ~Running(p)
    /\ cycles' = cycles + 1
    /\ loc' = [loc EXCEPT ![p] =
                 IF p = "cron" /\ env.cronSecret /\ ~authorized
                 THEN Return([IdleLoc EXCEPT !.authMismatch = TRUE], Unauthorized)
                 ELSE [IdleLoc EXCEPT !.pc = "keypair"]]
    /\ UNCHANGED <<tables, env, reads>>

(* A request arrives at route p, with any header *)
Arrive(p, cap) == \E authorized \in BOOLEAN : ArriveWith(p, cap, authorized)

(* A request arrives while no other request is being handled: the external
   scheduler sends them one after the other *)
Start(p) ==
    /\ \A q \in Procs : ~Running(q)
    /\ Arrive(p, MaxCycles)

(* await getDevWalletKeypair(): throws when no key is configured *)
GetKeypair(p) ==
    /\ loc[p].pc = "keypair"
    /\ \E ok \in BOOLEAN :
          loc' = [loc EXCEPT ![p] =
                    IF ok THEN [@ EXCEPT !.pc = "vault"] ELSE Return(@, ServerError)]
    /\ UNCHANGED <<tables, cycles, env, reads>>

(* await getCreatorVaultBalance(): answers 0 when the RPC call fails.  The
   admin route stops here when the balance is below the threshold; the
   other routes use the balance in their messages only, which are not kept. *)
GetVaultBalance(p) ==
    /\ loc[p].pc = "vault"
    /\ \E balance \in VaultBalances :
          loc' = [loc EXCEPT ![p] =
                    IF p = "admin"
                    THEN IF balance < CLAIM_THRESHOLD_SOL
                         THEN Return([@ EXCEPT !.vaultBalance = balance],
                                     Response(200, FALSE, "below_threshold"))
                         ELSE [@ EXCEPT !.vaultBalance = balance, !.pc = "claim"]
                    ELSE [@ EXCEPT !.pc = "wallet"]]
    /\ UNCHANGED <<tables, cycles, env, reads>>

(* await connection.getBalance(keypair.publicKey): may throw *)
GetWalletBalance(p) ==
    /\ loc[p].pc = "wallet"
    /\ \/ \E balance \in WalletBalances :
             loc' = [loc EXCEPT ![p] = [@ EXCEPT !.walletBalance = balance, !.pc = "claim"]]
       \/ loc' = [loc EXCEPT ![p] = Return(@, ServerError)]
    /\ UNCHANGED <<tables, cycles, env, reads>>

(* await claimCreatorRewards(keypair, PBTC_TOKEN_MINT), then the amount to use *)
Claim(p) ==
    /\ loc[p].pc = "claim"
    /\ \E balance \in VaultBalances : \E outcome \in ClaimOutcomes :
          LET r == ClaimCreatorRewards(balance, outcome)
              claim == [success |-> r.success, amount |-> r.amount, error |-> r.error]
          IN loc' = [loc EXCEPT ![p] =
                       AcquireFunds(p, [@ EXCEPT !.claim = claim,
                                                 !.venueCalls = @ + r.venue], claim)]
    /\ UNCHANGED <<tables, cycles, env, reads>>

(* A quotient of lamports written with denominator 1 when it is whole *)
Norm(a) == IF a.n % a.d = 0 THEN Whole(a.n \div a.d) ELSE a

(* The id the store gives the next row of buybacks *)
NextId == Len(buybacks) + 1

(* The update without its .eq("id", ...) filter *)
SetStatusAllRows(rows, id, status) ==
    [k \in 1..Len(rows) |-> [rows[k] EXCEPT !.status = status]]

(* supabase.from("buybacks").update({ status }).eq("id", id) *)
SetStatus(rows, id, status) ==
    [k \in 1..Len(rows) |-> IF rows[k].id = id THEN [rows[k] EXCEPT !.status = status]
                            ELSE rows[k]]

(* supabase.from("buybacks").insert({ sol_amount, tx_signature, status: "processing" }) *)
InsertBuyback(p) ==
    /\ loc[p].pc = "insert_buyback"
    /\ buybacks' = Append(buybacks, [id |-> NextId, sol_amount |-> loc[p].solAmount,
                                      status |-> "processing", wbtc_amount |-> Zero])
    /\ loc' = [loc EXCEPT ![p] = [@ EXCEPT !.pc = "log_buyback", !.buyback = NextId]]
    /\ UNCHANGED <<holdersTbl, distributions, activity_log, cycles, env, reads>>

(* The ranking started right after the entry, without the conversion *)
LogBuybackSkipsConvert(p) ==
    /\ loc[p].pc = "log_buyback"
    /\ activity_log' = Append(activity_log,
          [type |-> "buyback", amount |-> Whole(loc[p].solAmount), token_symbol |-> "SOL",
           wallet_address |-> "none",
           status |-> IF loc[p].claim.success THEN "completed" ELSE "using_wallet_balance"])
    /\ loc' = [loc EXCEPT ![p] = [@ EXCEPT !.pc = "gth_start"]]
    /\ UNCHANGED <<buybacks, holdersTbl, distributions, cycles, env, reads>>

(* supabase.from("activity_log").insert({ type: "buyback", ... }) *)
LogBuyback(p) ==
    /\ loc[p].pc = "log_buyback"
    /\ activity_log' = Append(activity_log,
          [type |-> "buyback", amount |-> Whole(loc[p].solAmount), token_symbol |-> "SOL",
           wallet_address |-> "none",
           status |-> IF loc[p].claim.success THEN "completed" ELSE "using_wallet_balance"])
    /\ loc' = [loc EXCEPT ![p] = [@ EXCEPT !.pc = IF p = "admin7" THEN "buy" ELSE "swap"]]
    /\ UNCHANGED <<buybacks, holdersTbl, distributions, cycles, env, reads>>

(* Math.max(0, solAmount * 0.9) *)
BuybackAmount(solAmount) == Norm(Amt(9 * solAmount, 10))

(* What one attempt of buyPbtcWithSol meets: the transaction is confirmed;
   the venue answers not-ok; fetch or an RPC call throws; the transaction
   fails on chain with the slippage error (TooMuchSolRequired, 0x1772) or
   with another error *)
BuyOutcomes == {"confirmed", "venue_error", "network", "slippage", "tx_error"}

(* The tolerance never raised *)
SlippageToleranceFixed(attempt) == BaseSlippage

(* baseSlippage + ((attempt - 1) * 5) *)
SlippageTolerance(attempt) == BaseSlippage + (attempt - 1) * SlippageStep

(* confirmation.value.err not looked at *)
AttemptResultIgnoresTxError(outcome, attempt, maxRetries) ==
    IF outcome \in {"confirmed", "slippage", "tx_error"} THEN "success"
    ELSE IF attempt < maxRetries THEN "retry"
    ELSE "failure"

(* What attempt number attempt of maxRetries leads to: "success", "retry"
   (continue) or "failure" (a failure result is returned) *)
AttemptResult(outcome, attempt, maxRetries) ==
    IF outcome = "confirmed" THEN "success"
    ELSE IF attempt < maxRetries THEN "retry"
    ELSE "failure"

BuyReturn(l, ok, amount) ==
    [l EXCEPT !.pc = "log_buy",
              !.buy = [tried |-> TRUE, success |-> ok,
                       solSpent |-> IF ok THEN amount ELSE Zero]]

(* One turn of the loop of buyPbtcWithSol(keypair, buybackAmount, retries):
   for (attempt = 1; attempt <= maxRetries; attempt++), the return after
   the loop, the return when PBTC_TOKEN_MINT is not set.  buyLog keeps the
   tolerance sent to the venue and the outcome of each attempt. *)
Buy(p) ==
    /\ loc[p].pc = "buy"
    /\ \/ /\ loc[p].battempt > loc[p].retries \/ ~env.mint
          /\ loc' = [loc EXCEPT ![p] = BuyReturn(@, FALSE, Zero)]
       \/ /\ loc[p].battempt <= loc[p].retries /\ env.mint
          /\ \E outcome \in BuyOutcomes :
                LET res == AttemptResult(outcome, loc[p].battempt, loc[p].retries)
                    l == [loc[p] EXCEPT !.buyLog = Append(@,
                             [slippage |-> SlippageTolerance(loc[p].battempt),
                              outcome |-> outcome])]
                IN loc' = [loc EXCEPT ![p] =
                             IF res = "retry" THEN [l EXCEPT !.battempt = @ + 1]
                             ELSE BuyReturn(l, res = "success",
                                            BuybackAmount(loc[p].solAmount))]
    /\ UNCHANGED <<tables, cycles, env, reads>>

(* buyPbtcWithSol applied to 0.0945 or 0.135 SOL with a retry budget of 0
   to MaxBuyRetries, with and without PBTC_TOKEN_MINT *)
InitBuy ==
    /\ \E amount \in {105000000, 150000000} : \E r \in 0..MaxBuyRetries :
          loc = [p \in Procs |->
                   IF p = "admin7"
                   THEN [IdleLoc EXCEPT !.pc = "buy", !.solAmount = amount, !.retries = r]
                   ELSE IdleLoc]
    /\ buybacks = <<>>
    /\ holdersTbl = <<>>
    /\ distributions = <<>>
    /\ activity_log = <<>>
    /\ cycles = 0
    /\ reads = NoRead
    /\ env \in {DefaultEnv, [DefaultEnv EXCEPT !.mint = FALSE]}

NextBuy == Buy("admin7")

SpecBuy == InitBuy /\ [][NextBuy]_vars

(* The call runs on until it returns: no await of it waits for ever (fetch,
   the backoff timer and the confirmation all resolve or time out) *)
SpecBuyFair == SpecBuy /\ WF_vars(NextBuy)

(* The fee reserve not held back *)
RemainingSolNoReserve(solAmount, buy) ==
    LET spent == IF buy.success THEN buy.solSpent ELSE Zero
        n == solAmount * spent.d - spent.n
    IN IF n <= 0 THEN Zero ELSE Norm(Amt(n, spent.d))

(* Math.max(0, solAmount - actualSpent - 0.01) *)
RemainingSol(solAmount, buy) ==
    LET spent == IF buy.success THEN buy.solSpent ELSE Zero
        n == (solAmount - FeeReserve) * spent.d - spent.n
    IN IF n <= 0 THEN Zero ELSE Norm(Amt(n, spent.d))

(* remainingSol <= 0.001 *)
TooLittleRemaining(remaining) == remaining.n <= MinRemaining * remaining.d

(* A failed buy ending the request with an error *)
LogBuyAbortsOnFailure(p) ==
    /\ loc[p].pc = "log_buy"
    /\ loc' = [loc EXCEPT ![p] =
                 IF ~loc[p].buy.success THEN Return(@, ServerError)
                 ELSE [@ EXCEPT !.pc = "swap", !.battempt = 1, !.buyLog = <<>>]]
    /\ UNCHANGED <<tables, cycles, env, reads>>

(* The activity entry of a successful buy, then the SOL left to wrap; the
   locals of buyPbtcWithSol are gone *)
LogBuy(p) ==
    /\ loc[p].pc = "log_buy"
    /\ activity_log' =
          IF loc[p].buy.success
          THEN Append(activity_log,
                  [type |-> "buyback", amount |-> loc[p].buy.solSpent,
                   token_symbol |-> "pBTC", wallet_address |-> "none",
                   status |-> "completed"])
          ELSE activity_log
    /\ loc' = [loc EXCEPT ![p] =
                 IF TooLittleRemaining(RemainingSol(loc[p].solAmount, loc[p].buy))
                 THEN Return([@ EXCEPT !.battempt = 1, !.buyLog = <<>>],
                             Response(200, TRUE, "no_remaining"))
                 ELSE [@ EXCEPT !.pc = "swap", !.battempt = 1, !.buyLog = <<>>]]
    /\ UNCHANGED <<buybacks, holdersTbl, distributions, cycles, env, reads>>

(* The amount handed to swapSolToWsol *)
SwapInput(p) ==
    IF p = "admin7" THEN RemainingSol(loc[p].solAmount, loc[p].buy)
    ELSE Whole(loc[p].solAmount)

(* await swapSolToWsol(keypair, amount): never throws *)
Swap(p) ==
    /\ loc[p].pc = "swap"
    /\ \E ok \in BOOLEAN :
          loc' = [loc EXCEPT ![p] = [@ EXCEPT
                    !.pc = IF ok THEN "log_swap" ELSE "mark_failed",
                    !.swap = [tried |-> TRUE, success |-> ok, input |-> SwapInput(p),
                              outputAmount |-> IF ok THEN SwapInput(p) ELSE Zero,
                              lamports |-> IF ok THEN Floor(SwapInput(p)) ELSE 0]]]
    /\ UNCHANGED <<tables, cycles, env, reads>>

(* The failed status never written *)
MarkFailedForgotten(p) ==
    /\ loc[p].pc = "mark_failed"
    /\ loc' = [loc EXCEPT ![p] = Return(@, ServerError)]
    /\ UNCHANGED <<tables, cycles, env, reads>>

(* supabase.from("buybacks").update({ status: "failed" }).eq("id", buyback?.id);
   return 500 *)
MarkFailed(p) ==
    /\ loc[p].pc = "mark_failed"
    /\ buybacks' = SetStatus(buybacks, loc[p].buyback, "failed")
    /\ loc' = [loc EXCEPT ![p] = Return(@, ServerError)]
    /\ UNCHANGED <<holdersTbl, distributions, activity_log, cycles, env, reads>>

(* supabase.from("activity_log").insert({ type: "swap", ... }) *)
LogSwap(p) ==
    /\ loc[p].pc = "log_swap"
    /\ activity_log' = Append(activity_log,
          [type |-> "swap", amount |-> loc[p].swap.outputAmount, token_symbol |-> "WSOL",
           wallet_address |-> "none", status |-> "completed"])
    /\ loc' = [loc EXCEPT ![p] = [@ EXCEPT !.pc = "complete_buyback"]]
    /\ UNCHANGED <<buybacks, holdersTbl, distributions, cycles, env, reads>>

(* supabase.from("buybacks").update({ wbtc_amount, status: "completed",
   completed_at }).eq("id", buyback?.id); the countdown upsert; the call of
   getTopHolders *)
CompleteBuyback(p) ==
    /\ loc[p].pc = "complete_buyback"
    /\ buybacks' = [k \in 1..Len(buybacks) |->
                      IF buybacks[k].id = loc[p].buyback
                      THEN [buybacks[k] EXCEPT !.status = "completed",
                                               !.wbtc_amount = loc[p].swap.outputAmount]
                      ELSE buybacks[k]]
    /\ loc' = [loc EXCEPT ![p] = [@ EXCEPT !.pc = "gth_start"]]
    /\ UNCHANGED <<holdersTbl, distributions, activity_log, cycles, env, reads>>

(* The empty list handed on to the snapshot replacement and the Distributor *)
AfterHoldersAlwaysProceeds(p) ==
    /\ loc[p].pc = "gth_ret"
    /\ loc' = [loc EXCEPT ![p] =
                 [@ EXCEPT !.pc = "delete_holders", !.accounts = <<>>, !.gi = 0,
                           !.attempt = 0, !.lastError = "none", !.found = <<>>,
                           !.lookups = <<>>]]
    /\ UNCHANGED <<tables, cycles, env, reads>>

(* if (holders.length === 0) return "Buyback complete, no holders to
   distribute"; the locals of getTopHolders are gone *)
AfterHolders(p) ==
    /\ loc[p].pc = "gth_ret"
    /\ loc' = [loc EXCEPT ![p] =
                 IF Len(loc[p].holders) = 0
                 THEN Return(@, Response(200, TRUE, "no_holders"))
                 ELSE [@ EXCEPT !.pc = "delete_holders", !.accounts = <<>>, !.gi = 0,
                                  !.attempt = 0, !.lastError = "none", !.found = <<>>,
                           !.lookups = <<>>]]
    /\ UNCHANGED <<tables, cycles, env, reads>>

(* The old rows left in place *)
DeleteHoldersKeepsRows(p) ==
    /\ loc[p].pc = "delete_holders"
    /\ loc' = [loc EXCEPT ![p] = [@ EXCEPT !.pc = "insert_holders"]]
    /\ UNCHANGED <<tables, cycles, env, reads>>

(* supabase.from("holders").delete().neq("id", "") *)
DeleteHolders(p) ==
    /\ loc[p].pc = "delete_holders"
    /\ holdersTbl' = <<>>
    /\ loc' = [loc EXCEPT ![p] = [@ EXCEPT !.pc = "insert_holders"]]
    /\ UNCHANGED <<buybacks, distributions, activity_log, cycles, env, reads>>

(* holders.map((h) => ({ wallet_address, pbtc_balance, rank,
   last_reward_amount: null, last_reward_at: null })): last_reward is the
   empty set for null, else the set of the one [amount, at] pair *)
HolderRows(holders) ==
    [k \in 1..Len(holders) |->
        [wallet_address |-> holders[k].wallet, pbtc_balance |-> holders[k].balance,
         rank |-> holders[k].rank, last_reward |-> {}]]

(* supabase.from("holders").insert(rows); the call of distributeToHolders
   with swapResult.outputAmount *)
InsertHolders(p) ==
    /\ loc[p].pc = "insert_holders"
    /\ holdersTbl' = holdersTbl \o HolderRows(loc[p].holders)
    /\ loc' = [loc EXCEPT ![p] = [@ EXCEPT !.pc = "dist_start", !.replaced = TRUE,
                                          !.wsolAmount = loc[p].swap.outputAmount]]
    /\ UNCHANGED <<buybacks, distributions, activity_log, cycles, env, reads>>

(* for (const dist of distributions) *)
AfterDistribute(p) ==
    /\ loc[p].pc = "dist_ret"
    /\ loc' = [loc EXCEPT ![p] = [@ EXCEPT !.pc = "persist", !.pi = 0]]
    /\ UNCHANGED <<tables, cycles, env, reads>>

(* holders.find((h) => h.wallet === dist.wallet)?.rank || 0 *)
FindRank(holders, wallet) ==
    IF \E k \in 1..Len(holders) : holders[k].wallet = wallet
    THEN holders[CHOOSE k \in 1..Len(holders) :
                    /\ holders[k].wallet = wallet
                    /\ \A j \in 1..(k - 1) : holders[j].wallet # wallet].rank
    ELSE 0

(* else branch: a failed distribution is only logged to the console *)
PersistSkip(p) ==
    /\ loc[p].pc = "persist"
    /\ loc[p].pi < Len(loc[p].results)
    /\ ~loc[p].results[loc[p].pi + 1].success
    /\ loc' = [loc EXCEPT ![p] = [@ EXCEPT !.pi = @ + 1]]
    /\ UNCHANGED <<tables, cycles, env, reads>>

(* supabase.from("distributions").insert({ buyback_id, wallet_address,
   wbtc_amount, holder_rank, status: "completed" }) *)
PersistDistribution(p) ==
    /\ loc[p].pc = "persist"
    /\ loc[p].pi < Len(loc[p].results)
    /\ loc[p].results[loc[p].pi + 1].success
    /\ LET dist == loc[p].results[loc[p].pi + 1]
       IN distributions' = Append(distributions,
             [buyback_id |-> loc[p].buyback, wallet_address |-> dist.wallet,
              wbtc_amount |-> dist.amount,
              holder_rank |-> FindRank(loc[p].holders, dist.wallet),
              status |-> "completed"])
    /\ loc' = [loc EXCEPT ![p] = [@ EXCEPT !.pc = "persist_activity"]]
    /\ UNCHANGED <<buybacks, holdersTbl, activity_log, cycles, env, reads>>

(* supabase.from("activity_log").insert({ type: "distribution", ... }) *)
PersistActivity(p) ==
    /\ loc[p].pc = "persist_activity"
    /\ LET dist == loc[p].results[loc[p].pi + 1]
       IN activity_log' = Append(activity_log,
             [type |-> "distribution", amount |-> dist.amount, token_symbol |-> "WSOL",
              wallet_address |-> dist.wallet, status |-> "completed"])
    /\ loc' = [loc EXCEPT ![p] = [@ EXCEPT !.pc = "persist_reward"]]
    /\ UNCHANGED <<buybacks, holdersTbl, distributions, cycles, env, reads>>

(* supabase.from("holders").update({ last_reward_amount, last_reward_at })
   .eq("wallet_address", dist.wallet); the time is told by the cycle's id *)
PersistReward(p) ==
    /\ loc[p].pc = "persist_reward"
    /\ LET dist == loc[p].results[loc[p].pi + 1]
       IN holdersTbl' = [k \in 1..Len(holdersTbl) |->
             IF holdersTbl[k].wallet_address = dist.wallet
             THEN [holdersTbl[k] EXCEPT !.last_reward =
                      {[amount |-> dist.amount, at |-> loc[p].buyback]}]
             ELSE holdersTbl[k]]
    /\ loc' = [loc EXCEPT ![p] = [@ EXCEPT !.pc = "persist", !.pi = @ + 1]]
    /\ UNCHANGED <<buybacks, distributions, activity_log, cycles, env, reads>>

(* The cycle marked failed when no recipient was paid *)
PersistReturnFailsUnpaidCycle(p) ==
    /\ loc[p].pc = "persist"
    /\ loc[p].pi = Len(loc[p].results)
    /\ LET paid == \E k \in 1..Len(loc[p].results) : loc[p].results[k].success
       IN /\ buybacks' = IF paid THEN buybacks
                         ELSE SetStatus(buybacks, loc[p].buyback, "failed")
          /\ loc' = [loc EXCEPT ![p] =
                       Return(@, IF paid THEN Response(200, TRUE, "distributed")
                                 ELSE ServerError)]
    /\ UNCHANGED <<holdersTbl, distributions, activity_log, cycles, env, reads>>

(* return { success: true, buyback, distributions, claimSuccess } *)
PersistReturn(p) ==
    /\ loc[p].pc = "persist"
    /\ loc[p].pi = Len(loc[p].results)
    /\ loc' = [loc EXCEPT ![p] = Return(@, Response(200, TRUE, "distributed"))]
    /\ UNCHANGED <<tables, cycles, env, reads>>

(* One request, every step of it *)
Step(p) ==
    \/ Start(p) \/ GetKeypair(p) \/ GetVaultBalance(p) \/ GetWalletBalance(p)
    \/ Claim(p) \/ InsertBuyback(p) \/ LogBuyback(p) \/ Buy(p) \/ LogBuy(p)
    \/ Swap(p) \/ MarkFailed(p) \/ LogSwap(p) \/ CompleteBuyback(p)
    \/ GthStart(p) \/ GthFetch(p) \/ GthOwner(p) \/ GthDone(p) \/ AfterHolders(p)
    \/ DeleteHolders(p) \/ InsertHolders(p)
    \/ DistStart(p) \/ DistributeHolder(p) \/ DistReturn(p) \/ AfterDistribute(p)
    \/ PersistSkip(p) \/ PersistDistribution(p) \/ PersistActivity(p)
    \/ PersistReward(p) \/ PersistReturn(p)

(* The store after an earlier cycle of the cron route: 0.15 SOL claimed and
   wrapped, holders w1 (2 tokens) and w2 (1 token) both paid *)
PriorAmount == 150000000
PriorShare(balance) == Amt(balance * PriorAmount, 3)

PriorBuybacks ==
    << [id |-> 1, sol_amount |-> PriorAmount, status |-> "completed",
        wbtc_amount |-> Whole(PriorAmount)] >>

PriorHolders ==
    << [wallet_address |-> "w1", pbtc_balance |-> 2, rank |-> 1,
        last_reward |-> {[amount |-> PriorShare(2), at |-> 1]}],
       [wallet_address |-> "w2", pbtc_balance |-> 1, rank |-> 2,
        last_reward |-> {[amount |-> PriorShare(1), at |-> 1]}] >>

PriorDistributions ==
    << [buyback_id |-> 1, wallet_address |-> "w1", wbtc_amount |-> PriorShare(2),
        holder_rank |-> 1, status |-> "completed"],
       [buyback_id |-> 1, wallet_address |-> "w2", wbtc_amount |-> PriorShare(1),
        holder_rank |-> 2, status |-> "completed"] >>

PriorActivity ==
    << [type |-> "buyback", amount |-> Whole(PriorAmount), token_symbol |-> "SOL",
        wallet_address |-> "none", status |-> "completed"],
       [type |-> "swap", amount |-> Whole(PriorAmount), token_symbol |-> "WSOL",
        wallet_address |-> "none", status |-> "completed"],
       [type |-> "distribution", amount |-> PriorShare(2), token_symbol |-> "WSOL",
        wallet_address |-> "w1", status |-> "completed"],
       [type |-> "distribution", amount |-> PriorShare(1), token_symbol |-> "WSOL",
        wallet_address |-> "w2", status |-> "completed"] >>

EmptyStore == << <<>>, <<>>, <<>>, <<>> >>
PriorStore == <<PriorBuybacks, PriorHolders, PriorDistributions, PriorActivity>>

(* No request is running; the store is empty or holds an earlier cycle *)
Init ==
    /\ loc = [p \in Procs |-> IdleLoc]
    /\ \E store \in {EmptyStore, PriorStore} :
          /\ buybacks = store[1]
          /\ holdersTbl = store[2]
          /\ distributions = store[3]
          /\ activity_log = store[4]
    /\ cycles = 0
    /\ reads = NoRead
    /\ env \in {DefaultEnv, [DefaultEnv EXCEPT !.cronSecret = FALSE, !.mint = FALSE],
                [DefaultEnv EXCEPT !.apiKey = FALSE]}

Next == \E p \in Procs : Step(p)

Spec == Init /\ [][Next]_vars

----------------------------------------------------------------------------
(* The buy and the wrap of the trigger route with the buy step, from the
   call of buyPbtcWithSol on: 0.0105 or 0.15 SOL were claimed, the
   cycle's record and its activity entry are written *)

ClaimedAmounts == {10500000, 150000000}

ClaimedLoc(amount) ==
    [IdleLoc EXCEPT
        !.pc = "buy", !.walletBalance = 50000000,
        !.claim = [success |-> TRUE, amount |-> amount, error |-> "none"],
        !.venueCalls = 1, !.solAmount = amount, !.buyback = 1]

InitSplit ==
    /\ \E amount \in ClaimedAmounts :
          /\ loc = [p \in Procs |-> IF p = "admin7" THEN ClaimedLoc(amount) ELSE IdleLoc]
          /\ buybacks = << [id |-> 1, sol_amount |-> amount, status |-> "processing",
                            wbtc_amount |-> Zero] >>
          /\ activity_log = << [type |-> "buyback", amount |-> Whole(amount),
                                token_symbol |-> "SOL", wallet_address |-> "none",
                                status |-> "completed"] >>
    /\ holdersTbl = <<>>
    /\ distributions = <<>>
    /\ cycles = 1
    /\ env = DefaultEnv
    /\ reads = NoRead

NextSplit == Buy("admin7") \/ LogBuy("admin7") \/ Swap("admin7")

SpecSplit == InitSplit /\ [][NextSplit]_vars

----------------------------------------------------------------------------
(* Requests that arrive while another request is being handled: the steps
   of each handler up to the entry in the activity log *)

NextOverlap ==
    \E p \in Procs :
        \/ Arrive(p, MaxOverlap) \/ GetKeypair(p) \/ GetVaultBalance(p)
        \/ GetWalletBalance(p) \/ Claim(p) \/ InsertBuyback(p) \/ LogBuyback(p)

SpecOverlap == Init /\ [][NextOverlap]_vars

----------------------------------------------------------------------------
(* GET of the holders route, served while a cycle runs *)

(* Some handler has deleted the holder rows and not yet inserted the new ones *)
BetweenDeleteAndInsert == \E p \in Procs : loc[p].pc = "insert_holders"

(* supabase.from("holders").select(...).order("rank").limit(25): one query
   reads the table as it is at that moment (the handlers insert in rank
   order); gap tells whether a replacement was under way *)
ReadHolders ==
    /\ reads' = [done |-> TRUE,
                 rows |-> SubSeq(holdersTbl, 1, Min(Len(holdersTbl), TopN)),
                 gap |-> BetweenDeleteAndInsert]
    /\ UNCHANGED <<loc, tables, cycles, env>>

(* The cron handler of a second cycle right after its ranking returned
   holders: 0.15 SOL claimed and wrapped, the snapshot not yet replaced *)
RankedHolderLists ==
    { << Holder("w1", 2, 1), Holder("w2", 1, 2) >>, << Holder("w2", 2, 2) >> }

RankedLoc(holders) ==
    [IdleLoc EXCEPT
        !.pc = "delete_holders", !.walletBalance = 50000000,
        !.claim = [success |-> TRUE, amount |-> PriorAmount, error |-> "none"],
        !.venueCalls = 1, !.solAmount = PriorAmount, !.buyback = 2,
        !.swap = [tried |-> TRUE, success |-> TRUE, input |-> Whole(PriorAmount),
                  outputAmount |-> Whole(PriorAmount), lamports |-> PriorAmount],
        !.holders = holders]

InitSnapshot ==
    /\ \E holders \in RankedHolderLists :
          loc = [p \in Procs |-> IF p = "cron" THEN RankedLoc(holders) ELSE IdleLoc]
    /\ buybacks = PriorBuybacks \o
          << [id |-> 2, sol_amount |-> PriorAmount, status |-> "completed",
              wbtc_amount |-> Whole(PriorAmount)] >>
    /\ holdersTbl = PriorHolders
    /\ distributions = PriorDistributions
    /\ activity_log = PriorActivity \o SubSeq(PriorActivity, 1, 2)
    /\ cycles = 1
    /\ env = DefaultEnv
    /\ reads = NoRead

NextSnapshot ==
    \/ ReadHolders
    \/ DeleteHolders("cron") \/ InsertHolders("cron")
    \/ DistStart("cron") \/ DistributeHolder("cron") \/ DistReturn("cron")
    \/ AfterDistribute("cron") \/ PersistSkip("cron") \/ PersistDistribution("cron")
    \/ PersistActivity("cron") \/ PersistReward("cron") \/ PersistReturn("cron")

SpecSnapshot == InitSnapshot /\ [][NextSnapshot]_vars

----------------------------------------------------------------------------
(* Properties of distributeToHolders *)

TransferLamports(p) == [k \in 1..Len(loc[p].transfers) |-> loc[p].transfers[k].lamports]

(* C1: the floored shares distributeToHolders submits for transfer never add
   up to more than totalAmount, both counted in lamports. *)
C1_SharesNeverOverAllocate ==
    \A p \in Procs :
        SumSeq(TransferLamports(p)) * loc[p].wsolAmount.d <= loc[p].wsolAmount.n

(* Rounding down has left part of the amount undistributed over two transfers *)
C1_Witness ==
    /\ loc["cron"].pc = "dist_ret"
    /\ Len(loc["cron"].transfers) >= 2
    /\ SumSeq(TransferLamports("cron")) < loc["cron"].wsolAmount.n
    /\ \A k \in 1..Len(loc["cron"].holders) : loc["cron"].holders[k].balance > 0

(* C2: when distributeToHolders returns, it returns one result per input
   holder, the i-th result carrying the i-th holder's wallet. *)
C2_OneResultPerHolder ==
    \A p \in Procs :
        loc[p].pc = "dist_ret" =>
            /\ Len(loc[p].results) = Len(loc[p].holders)
            /\ \A i \in 1..Len(loc[p].results) :
                  loc[p].results[i].wallet = loc[p].holders[i].wallet

(* A returned batch that mixes a success, a too-small share and a failed transfer *)
C2_Witness ==
    /\ loc["cron"].pc = "dist_ret"
    /\ Len(loc["cron"].holders) = 3
    /\ \E i, j, k \in 1..3 :
          /\ loc["cron"].results[i].success
          /\ loc["cron"].results[j].error = "Share too small"
          /\ loc["cron"].results[k].error \in {"bad_address", "transfer_failed"}

(* The share of the holder at place j is a positive number of lamports *)
HasPositiveShare(p, j) ==
    LET sl == ShareLamports(Share(loc[p].holders[j].balance, loc[p].totalHoldings,
                                  loc[p].wsolAmount))
    IN  ~sl.nan /\ sl.v > 0

(* C3: a recipient whose transfer fails does not stop the batch: every
   recipient after it still gets a result of its own, and a transfer is
   submitted for each of them unless its own share is too small or its own
   address is rejected. *)
C3_FailureIsolation ==
    \A p \in Procs :
        loc[p].pc = "dist_ret" =>
            \A i \in 1..Len(loc[p].holders) :
                (i <= Len(loc[p].results) /\ ~loc[p].results[i].success) =>
                    \A j \in (i + 1)..Len(loc[p].holders) :
                        /\ j <= Len(loc[p].results)
                        /\ loc[p].results[j].wallet = loc[p].holders[j].wallet
                        /\ (HasPositiveShare(p, j) /\ loc[p].results[j].error # "bad_address")
                              => \E k \in 1..Len(loc[p].transfers) :
                                    loc[p].transfers[k].idx = j
                        /\ loc[p].results[j].success
                              => \E k \in 1..Len(loc[p].transfers) :
                                    /\ loc[p].transfers[k].idx = j
                                    /\ loc[p].transfers[k].ok

(* The first recipient's account creation fails and both later recipients are paid *)
C3_Witness ==
    /\ loc["cron"].pc = "dist_ret"
    /\ Len(loc["cron"].results) = 3
    /\ loc["cron"].results[1].error = "transfer_failed"
    /\ \E k \in 1..Len(loc["cron"].transfers) :
          /\ loc["cron"].transfers[k].idx = 1
          /\ loc["cron"].transfers[k].create
          /\ ~loc["cron"].transfers[k].ok
    /\ loc["cron"].results[2].success
    /\ loc["cron"].results[3].success

----------------------------------------------------------------------------
(* Properties of getTopHolders *)

AccountAddresses == { AccountAddr[i] : i \in 1..Len(AccountAddr) }

(* The lookups so far that answered with an owner, in order *)
RECURSIVE Resolved(_)
Resolved(lookups) ==
    IF lookups = <<>> THEN <<>>
    ELSE IF Head(lookups) \in Wallets THEN <<Head(lookups)>> \o Resolved(Tail(lookups))
    ELSE Resolved(Tail(lookups))

(* C6: every holder getTopHolders returns carries the owner wallet that the
   lookup of its token account answered, never a token account address, and
   an account whose lookup answered no owner is not in the result. *)
C6_OwnersNotTokenAccounts ==
    \A p \in Procs :
        loc[p].pc = "gth_ret" =>
            /\ \A k \in 1..Len(loc[p].holders) :
                  /\ loc[p].holders[k].wallet \in Wallets
                  /\ loc[p].holders[k].wallet \notin AccountAddresses
            /\ Len(loc[p].holders) <= Len(Resolved(loc[p].lookups))
            /\ \A k \in 1..Len(loc[p].holders) :
                  loc[p].holders[k].wallet = Resolved(loc[p].lookups)[k]

(* A ranking pass that returned holders although one lookup answered no owner *)
C6_Witness ==
    /\ loc["cron"].pc = "gth_ret"
    /\ Len(loc["cron"].holders) >= 2
    /\ \E k \in 1..Len(loc["cron"].lookups) : loc["cron"].lookups[k] = NoOwner

(* C7: the ranks of the k holders getTopHolders returns are 1..k in order,
   also when some owner lookups were skipped. *)
C7_DenseRanks ==
    \A p \in Procs :
        loc[p].pc = "gth_ret" =>
            \A k \in 1..Len(loc[p].holders) : loc[p].holders[k].rank = k

(* C8: when an owner lookup is rate limited until the retry budget is used
   up, only that holder is skipped: the pass goes through every account and
   returns the holders that resolved. *)
C8_RateLimitSkipsOneHolder ==
    \A p \in Procs :
        (/\ loc[p].pc = "gth_ret"
         /\ \E k \in 1..Len(loc[p].lookups) : loc[p].lookups[k] = "rate_limited") =>
            /\ Len(loc[p].lookups) = Len(loc[p].accounts)
            /\ Len(loc[p].holders) = Len(Resolved(loc[p].lookups))

----------------------------------------------------------------------------
(* Properties of a cycle *)

(* The cycle's row of buybacks has this status *)
CycleStatus(p, status) ==
    \E k \in 1..Len(buybacks) :
        buybacks[k].id = loc[p].buyback /\ buybacks[k].status = status

ConvertFailed(p) == loc[p].swap.tried /\ ~loc[p].swap.success

(* C4: once swapSolToWsol has failed, the handler only marks the cycle
   failed and returns: it never ranks holders, never replaces the snapshot,
   submits no transfer, writes no distribution row for the cycle, and when
   it has returned the cycle's record has status failed. *)
C4_ConvertFailureEndsCycle ==
    \A p \in Procs :
        ConvertFailed(p) =>
            /\ loc[p].pc \in {"mark_failed", "done"}
            /\ loc[p].accounts = <<>> /\ loc[p].lookups = <<>> /\ loc[p].holders = <<>>
            /\ ~loc[p].replaced
            /\ loc[p].results = <<>> /\ loc[p].transfers = <<>>
            /\ \A k \in 1..Len(distributions) :
                  distributions[k].buyback_id # loc[p].buyback
            /\ loc[p].pc = "done" =>
                  /\ CycleStatus(p, "failed")
                  /\ loc[p].response = ServerError

(* A cycle of the route with the buy step whose wrap failed, after an
   earlier cycle that had paid two holders *)
C4_Witness ==
    /\ loc["admin7"].pc = "done"
    /\ ConvertFailed("admin7")
    /\ loc["admin7"].buy.success
    /\ Len(buybacks) = 2
    /\ buybacks[2].status = "failed"
    /\ Len(distributions) = 2

(* The wallet got a successful transfer in the cycle of p *)
PaidInCycle(p, wallet) ==
    \E k \in 1..Len(loc[p].results) :
        loc[p].results[k].wallet = wallet /\ loc[p].results[k].success

(* C5: once a cycle has replaced the holder snapshot, a row has a last
   reward only if its wallet got a successful transfer in this same cycle,
   and that reward is stamped by this cycle; a row whose wallet got no
   successful transfer (failed, too small, or not reached yet) has none. *)
C5_RewardOnlyFromThisCycle ==
    \A p \in Procs :
        loc[p].replaced =>
            \A k \in 1..Len(holdersTbl) :
                /\ holdersTbl[k].last_reward # {} =>
                      /\ PaidInCycle(p, holdersTbl[k].wallet_address)
                      /\ \A r \in holdersTbl[k].last_reward : r.at = loc[p].buyback
                /\ ~PaidInCycle(p, holdersTbl[k].wallet_address) =>
                      holdersTbl[k].last_reward = {}

(* After a cycle that paid w1 and w2, a second cycle has finished in which
   w1 was paid again and the transfer to w2 failed: w2's row has no reward *)
C5_Witness ==
    /\ loc["cron"].pc = "done"
    /\ loc["cron"].response.kind = "distributed"
    /\ loc["cron"].buyback = 2
    /\ Len(distributions) = 3
    /\ Len(holdersTbl) = 2
    /\ holdersTbl[1].wallet_address = "w1" /\ holdersTbl[1].last_reward # {}
    /\ holdersTbl[2].wallet_address = "w2" /\ holdersTbl[2].last_reward = {}
    /\ loc["cron"].results[2].error = "transfer_failed"

(* claimCreatorRewards has returned to the handler *)
ClaimReturned(p) == loc[p].claim.success \/ loc[p].claim.error # "none"

NoFundsKinds == {"skipped", "no_funds"}

(* C9: in the cron route and the admin route with the buy step, after the
   claim: a successful claim gives the claimed amount; a failed claim gives
   the wallet balance less the 0.01 reserve and the cycle goes on when that
   is positive; otherwise the request ends with the no-funds result, which
   is not an error response. *)
C9_FundSourcingFallback ==
    \A p \in {"cron", "admin7"} :
        ClaimReturned(p) =>
            /\ loc[p].claim.success =>
                  /\ loc[p].solAmount = loc[p].claim.amount
                  /\ loc[p].response.kind \notin NoFundsKinds
            /\ (~loc[p].claim.success /\ loc[p].walletBalance - FeeReserve > 0) =>
                  /\ loc[p].solAmount = loc[p].walletBalance - FeeReserve
                  /\ loc[p].response.kind \notin NoFundsKinds
            /\ (~loc[p].claim.success /\ loc[p].walletBalance - FeeReserve <= 0) =>
                  /\ loc[p].pc = "done"
                  /\ loc[p].response.kind \in NoFundsKinds
                  /\ loc[p].response.status = 200
                  /\ loc[p].response.success

(* The handler has got as far as the claim step, or was stopped short of it
   by the vault balance it had queried *)
AtOrPastClaim(p) == ClaimReturned(p) \/ loc[p].response.kind = "below_threshold"

(* C10: a request that gets to the claim step posts a claim to the venue,
   whatever balance the vault reports. *)
C10_ClaimAlwaysSubmitted ==
    \A p \in Procs : AtOrPastClaim(p) => loc[p].venueCalls >= 1

----------------------------------------------------------------------------
(* Properties of buyPbtcWithSol *)

(* C16: the tolerance sent to the venue goes up from one attempt to the
   next only when the earlier attempt failed with the slippage error. *)
C16_SlippageRaisedOnlyAfterSlippage ==
    \A p \in Procs :
        \A k \in 1..(Len(loc[p].buyLog) - 1) :
            loc[p].buyLog[k + 1].slippage > loc[p].buyLog[k].slippage =>
                loc[p].buyLog[k].outcome = "slippage"

(* C17: attempt k is sent with tolerance 15 + 5 * (k - 1); after a slippage
   failure of attempt k below the retry budget the loop is at attempt k + 1
   or has made it; a confirmed attempt makes the call return success with
   the amount spent. *)
C17_SlippageEscalation ==
    \A p \in Procs :
        LET log == loc[p].buyLog
        IN /\ \A k \in 1..Len(log) :
                 /\ log[k].slippage = BaseSlippage + SlippageStep * (k - 1)
                 /\ (log[k].outcome = "slippage" /\ k < loc[p].retries) =>
                       \/ Len(log) > k
                       \/ loc[p].pc = "buy" /\ loc[p].battempt = k + 1
           /\ (loc[p].pc = "log_buy" /\ Len(log) > 0
                 /\ log[Len(log)].outcome = "confirmed") =>
                 /\ loc[p].buy.success
                 /\ loc[p].buy.solSpent.n * 10 = 9 * loc[p].solAmount * loc[p].buy.solSpent.d

(* Slippage failure at 15, then success at 20 *)
C17_Witness ==
    /\ loc["admin7"].pc = "log_buy"
    /\ loc["admin7"].buyLog = << [slippage |-> 15, outcome |-> "slippage"],
                                 [slippage |-> 20, outcome |-> "confirmed"] >>
    /\ loc["admin7"].buy.success

----------------------------------------------------------------------------
(* Properties of the cycle record and of the steps after funds acquisition *)

NoFunds(p) == loc[p].response.kind \in NoFundsKinds

(* C11: when no funds are available the cycle is recorded as skipped (a
   cycle record or an activity entry with status skipped exists) and the
   cycle buys nothing, converts nothing, ranks no holders, replaces no
   snapshot and transfers nothing. *)
C11_NoFundsRecordedSkipped ==
    \A p \in Procs :
        NoFunds(p) =>
            /\ ~loc[p].buy.tried /\ ~loc[p].swap.tried
            /\ loc[p].holders = <<>> /\ ~loc[p].replaced
            /\ loc[p].results = <<>> /\ loc[p].transfers = <<>>
            /\ \/ \E k \in 1..Len(buybacks) : buybacks[k].status = "skipped"
               \/ \E k \in 1..Len(activity_log) : activity_log[k].status = "skipped"

TerminalStatuses == {"completed", "failed"}

(* C12: in every step, the rows of buybacks stay, a new row starts as
   processing, a processing row stays processing or becomes completed or
   failed, and a completed or failed row keeps its status. *)
C12_StatusMonotonic ==
    [][ /\ Len(buybacks') >= Len(buybacks)
        /\ \A k \in 1..Len(buybacks') :
              IF k > Len(buybacks) THEN buybacks'[k].status = "processing"
              ELSE /\ buybacks'[k].id = buybacks[k].id
                   /\ buybacks[k].status \in TerminalStatuses =>
                         buybacks'[k].status = buybacks[k].status
                   /\ buybacks[k].status = "processing" =>
                         buybacks'[k].status \in {"processing"} \cup TerminalStatuses
      ]_vars

(* A later cycle has failed while the record of the earlier cycle is completed *)
C12_Witness ==
    /\ Len(buybacks) = 2
    /\ buybacks[1].status = "completed"
    /\ buybacks[2].status = "failed"
    /\ \E p \in Procs : loc[p].pc = "done"

(* The handler is past the update that stores the converted amount *)
PastCompletion(p) ==
    loc[p].swap.success /\ loc[p].pc \notin {"log_swap", "complete_buyback"}

(* C13: once the conversion has succeeded and its result is stored, the
   cycle's record is completed in every later state, through ranking,
   distribution and persistence, and the handler returns success whatever
   the recipients' outcomes are. *)
C13_CompletedAfterConversion ==
    \A p \in Procs :
        PastCompletion(p) =>
            /\ CycleStatus(p, "completed")
            /\ loc[p].pc = "done" =>
                  /\ loc[p].response.status = 200
                  /\ loc[p].response.success

(* A cycle has returned after every one of its two or more transfers failed *)
C13_Witness ==
    /\ loc["cron"].pc = "done"
    /\ PastCompletion("cron")
    /\ Len(loc["cron"].results) >= 2
    /\ \A k \in 1..Len(loc["cron"].results) : loc["cron"].results[k].error = "transfer_failed"

(* C14: a cycle whose conversion succeeded and whose ranking returned no
   holder ends with the success response "no holders", told apart from the
   response of a distribution; it replaces no snapshot, attempts no
   transfer, writes no distribution row, and its record is completed. *)
C14_NoHoldersOutcome ==
    \A p \in Procs :
        (loc[p].pc = "done" /\ loc[p].swap.success /\ loc[p].holders = <<>>) =>
            /\ loc[p].response = Response(200, TRUE, "no_holders")
            /\ ~loc[p].replaced
            /\ loc[p].results = <<>> /\ loc[p].transfers = <<>>
            /\ \A k \in 1..Len(distributions) :
                  distributions[k].buyback_id # loc[p].buyback
            /\ CycleStatus(p, "completed")

(* The ranking found three token accounts, none with an owner *)
C14_Witness ==
    /\ loc["cron"].pc = "done"
    /\ loc["cron"].response.kind = "no_holders"
    /\ loc["cron"].lookups = <<NoOwner, NoOwner, NoOwner>>
    /\ Len(buybacks) = 2

BuyFailed(p) == loc[p].buy.tried /\ ~loc[p].buy.success

(* C15 as stated: after a failed buy the convert step is given the whole
   acquired amount. *)
C15_ConvertsFullAmount ==
    \A p \in Procs :
        (BuyFailed(p) /\ loc[p].pc \notin {"log_buy"}) =>
            /\ loc[p].response # ServerError \/ loc[p].swap.tried
            /\ loc[p].pc = "done" => loc[p].swap.tried
            /\ loc[p].swap.tried => loc[p].swap.input = Whole(loc[p].solAmount)

(* C15 amended: after a failed buy the request is not ended with an error
   on that account; when the acquired amount less the 0.01 reserve is above
   0.001 the convert step is run on exactly that amount, and otherwise the
   request ends with success without converting. *)
C15_ConvertsAmountLessReserve ==
    \A p \in Procs :
        (BuyFailed(p) /\ loc[p].pc \notin {"log_buy"}) =>
            IF loc[p].solAmount - FeeReserve > MinRemaining
            THEN /\ loc[p].pc = "done" => loc[p].swap.tried
                 /\ loc[p].swap.tried =>
                       loc[p].swap.input = Whole(loc[p].solAmount - FeeReserve)
            ELSE /\ ~loc[p].swap.tried
                 /\ loc[p].response = Response(200, TRUE, "no_remaining")

(* The buy failed on all three attempts and 0.14 of the 0.15 SOL was wrapped *)
C15_Witness ==
    /\ BuyFailed("admin7")
    /\ loc["admin7"].swap.success
    /\ loc["admin7"].solAmount = 150000000
    /\ loc["admin7"].swap.outputAmount = Whole(140000000)
    /\ loc["admin7"].pc = "done"

----------------------------------------------------------------------------
(* Properties of concurrent requests *)

InProgress == { p \in Procs : Running(p) }

(* C18: at most one cycle is in progress at any time. *)
C18_OneCycleAtATime == Cardinality(InProgress) <= 1

(* C19: no GET of the holders route reads the table between the delete of
   the old rows and the insert of the new ones. *)
C19_ReadersNeverSeeGap == reads.done => ~reads.gap

(* C20: no two rows of distributions have the same cycle id and the same
   wallet address. *)
C20_OneRecordPerCycleAndWallet ==
    \A i \in 1..Len(distributions) : \A j \in 1..Len(distributions) :
        (i < j /\ distributions[i].buyback_id = distributions[j].buyback_id) =>
            distributions[i].wallet_address # distributions[j].wallet_address

----------------------------------------------------------------------------
(* Properties of the holder snapshot and of the distribution records *)

(* C21: in the snapshot a cycle has stored from the return of
   getTopHolders, no two rows have the same wallet address and no two rows
   have the same rank. *)
C21_SnapshotWalletsAndRanksDistinct ==
    \A p \in Procs :
        loc[p].replaced =>
            \A i \in 1..Len(holdersTbl) : \A j \in 1..Len(holdersTbl) :
                i < j => /\ holdersTbl[i].wallet_address # holdersTbl[j].wallet_address
                         /\ holdersTbl[i].rank # holdersTbl[j].rank

(* The rows of distributions written for the cycle of p and this wallet *)
RecordsOf(p, wallet) ==
    { k \in 1..Len(distributions) :
        /\ distributions[k].buyback_id = loc[p].buyback
        /\ distributions[k].wallet_address = wallet }

(* C22: when a cycle that distributed has returned, every holder handed to
   distributeToHolders has exactly one row of distributions for this cycle,
   whether its transfer succeeded or failed. *)
C22_OneRecordPerHolder ==
    \A p \in Procs :
        (loc[p].pc = "done" /\ loc[p].response.kind = "distributed") =>
            \A i \in 1..Len(loc[p].holders) :
                Cardinality(RecordsOf(p, loc[p].holders[i].wallet)) = 1

----------------------------------------------------------------------------
(* Properties of the error handling and of the order of the steps *)

(* A lookup inside getTopHolders ended with a thrown error *)
LookupThrew(p) ==
    \E k \in 1..Len(loc[p].lookups) : loc[p].lookups[k] \in {"threw", "rate_limited"}

(* C23: the handler answers 500 only when one of its own calls threw before
   the claim (key loading, wallet balance) or when it returns on the failure
   result of the claim or of the wrap; a failed claim, a ranking whose
   request threw and a transfer that threw are results the handler goes on
   from, never an exception caught by the handler. *)
C23_ComponentFailuresAreResults ==
    \A p \in Procs :
        /\ loc[p].response = ServerError =>
              \/ ~ClaimReturned(p)
              \/ p = "admin" /\ ~loc[p].claim.success
              \/ ConvertFailed(p)
        /\ LookupThrew(p) =>
              /\ loc[p].pc \in {"gth_ret", "done"}
              /\ loc[p].holders = <<>>
              /\ loc[p].response # ServerError
        /\ (\E k \in 1..Len(loc[p].results) : loc[p].results[k].error = "transfer_failed") =>
              loc[p].response # ServerError

(* The claim failed at the venue, the cycle went on with the wallet balance,
   and an owner lookup threw: the request ended with the no-holders success *)
C23_Witness ==
    /\ loc["cron"].pc = "done"
    /\ loc["cron"].claim.error = "Claim failed"
    /\ loc["cron"].venueCalls = 1
    /\ loc["cron"].swap.success
    /\ LookupThrew("cron")
    /\ loc["cron"].response = Response(200, TRUE, "no_holders")

(* Where the handler is: the buy and the conversion, the ranking, the
   distribution with its persistence *)
Converting(p) == loc[p].pc \in {"buy", "log_buy", "swap"} \/ loc[p].buy.tried \/ loc[p].swap.tried

Ranking(p) ==
    \/ loc[p].pc \in {"gth_start", "gth_fetch", "gth_owner", "gth_ret"}
    \/ loc[p].accounts # <<>> \/ loc[p].lookups # <<>> \/ loc[p].holders # <<>>

Distributing(p) ==
    \/ loc[p].pc \in {"dist_start", "dist_loop", "dist_ret", "persist", "persist_activity",
                      "persist_reward"}
    \/ loc[p].results # <<>> \/ loc[p].transfers # <<>>

(* C24: the conversion starts only after the funds step has returned an
   amount, the ranking only after the conversion has returned success, the
   distribution only after the ranking has returned holders; the transfers
   are submitted in the order of the holders, and each transfer has its
   result before the next one is submitted. *)
C24_StepsInSequence ==
    \A p \in Procs :
        /\ Converting(p) =>
              /\ ClaimReturned(p) /\ loc[p].solAmount > 0 /\ loc[p].buyback # 0
              /\ loc[p].swap.tried =>
                    (p = "admin7") = loc[p].buy.tried
        /\ Ranking(p) => loc[p].swap.success
        /\ Distributing(p) =>
              /\ loc[p].swap.success
              /\ loc[p].holders # <<>>
              /\ loc[p].pc \notin {"gth_start", "gth_fetch", "gth_owner", "gth_ret"}
        /\ \A k \in 1..Len(loc[p].transfers) :
              /\ loc[p].transfers[k].idx <= Len(loc[p].results)
              /\ loc[p].results[loc[p].transfers[k].idx].success = loc[p].transfers[k].ok
              /\ k > 1 => loc[p].transfers[k - 1].idx < loc[p].transfers[k].idx

(* A cycle of the route with the buy step that bought, wrapped, ranked and
   made two transfers *)
C24_Witness ==
    /\ loc["admin7"].pc = "done"
    /\ loc["admin7"].buy.success
    /\ loc["admin7"].response.kind = "distributed"
    /\ Len(loc["admin7"].transfers) >= 2

----------------------------------------------------------------------------
(* Properties of the shares *)

(* balance * amount / total over the whole input, rounded down to lamports *)
ProportionalLamports(p, i) ==
    (loc[p].holders[i].balance * loc[p].wsolAmount.n)
        \div (TotalHoldings(loc[p].holders) * loc[p].wsolAmount.d)

(* Balances 300, 200, 100 and 0.6 SOL, in hundreds of tokens and tenths of
   SOL: what the three iterations submit *)
ScenarioHolders == << Holder("w1", 3, 1), Holder("w2", 2, 2), Holder("w1", 1, 3) >>

ScenarioTransfers ==
    [i \in 1..3 |->
        HolderTransfer(i, ScenarioHolders[i], TotalHoldings(ScenarioHolders), Whole(6),
                       "sent")[1].lamports]

(* C25: every transfer submitted is for balance * amount / (sum of the
   balances of the whole input) rounded down, every successful result
   reports that quotient, whatever happened to the recipients before it;
   balances in the ratio 300 : 200 : 100 and an amount of 0.6 give 0.3, 0.2
   and 0.1. *)
C25_ShareOfFullHolderSet ==
    /\ ScenarioTransfers = <<3, 2, 1>>
    /\ \A p \in Procs :
          /\ \A k \in 1..Len(loc[p].transfers) :
                /\ TotalHoldings(loc[p].holders) > 0
                /\ loc[p].transfers[k].lamports =
                      ProportionalLamports(p, loc[p].transfers[k].idx)
          /\ \A i \in 1..Len(loc[p].results) :
                loc[p].results[i].success =>
                    loc[p].results[i].amount.n * TotalHoldings(loc[p].holders)
                            * loc[p].wsolAmount.d
                        = loc[p].holders[i].balance * loc[p].wsolAmount.n
                            * loc[p].results[i].amount.d

(* Three equal holders and 3 lamports: the first transfer failed and the two
   later recipients still got one lamport each *)
C25_Witness ==
    /\ loc["cron"].pc = "dist_ret"
    /\ Len(loc["cron"].holders) = 3
    /\ loc["cron"].wsolAmount = Whole(3)
    /\ loc["cron"].results[1].error = "transfer_failed"
    /\ loc["cron"].results[2].success /\ loc["cron"].results[3].success
    /\ \A k \in 1..Len(loc["cron"].transfers) : loc["cron"].transfers[k].lamports = 1

(* C26: a holder whose share rounds down to zero lamports gets the failure
   result "Share too small" with amount 0 and no transfer is submitted for
   it; the loop goes on, so that a returned batch has a result for every
   holder. *)
C26_ShareTooSmallSkipped ==
    \A p \in Procs :
        /\ \A i \in 1..Len(loc[p].results) :
              (TotalHoldings(loc[p].holders) > 0 /\ ProportionalLamports(p, i) = 0) =>
                  /\ loc[p].results[i] = FailResult(loc[p].holders[i].wallet, "Share too small")
                  /\ \A k \in 1..Len(loc[p].transfers) : loc[p].transfers[k].idx # i
        /\ loc[p].pc = "dist_ret" => Len(loc[p].results) = Len(loc[p].holders)

(* The first holder's share was too small and the second holder was paid *)
C26_Witness ==
    /\ loc["cron"].pc = "dist_ret"
    /\ Len(loc["cron"].results) >= 2
    /\ loc["cron"].results[1].error = "Share too small"
    /\ loc["cron"].results[2].success
    /\ Len(loc["cron"].transfers) = 1

(* Every holder has the same positive balance *)
UniformBalances(holders) ==
    /\ holders # <<>>
    /\ \A i \in 1..Len(holders) :
          holders[i].balance > 0 /\ holders[i].balance = holders[1].balance

(* The lamports attempted for the holder at place i: those of its transfer,
   0 when its share was too small; the holders whose address was rejected
   before the transfer was built have none *)
Attempted(p, i) ==
    IF \E k \in 1..Len(loc[p].transfers) : loc[p].transfers[k].idx = i
    THEN { loc[p].transfers[k].lamports :
             k \in { j \in 1..Len(loc[p].transfers) : loc[p].transfers[j].idx = i } }
    ELSE IF loc[p].results[i].error = "Share too small" THEN {0}
    ELSE {}

(* C27: when all balances are equal and positive, the lamports attempted for
   each holder are within one lamport of amount / count. *)
C27_UniformSharesEqual ==
    \A p \in Procs :
        UniformBalances(loc[p].holders) =>
            \A i \in 1..Len(loc[p].results) : \A a \in Attempted(p, i) :
                LET count == Len(loc[p].holders)
                    diff == a * count * loc[p].wsolAmount.d - loc[p].wsolAmount.n
                IN /\ diff <= count * loc[p].wsolAmount.d
                   /\ -diff <= count * loc[p].wsolAmount.d

(* Two holders with balance 2 each and 3 lamports: one lamport each *)
C27_Witness ==
    /\ loc["cron"].pc = "dist_ret"
    /\ Len(loc["cron"].holders) = 2
    /\ UniformBalances(loc["cron"].holders)
    /\ loc["cron"].holders[1].balance = 2
    /\ loc["cron"].wsolAmount = Whole(3)
    /\ Attempted("cron", 1) = {1} /\ Attempted("cron", 2) = {1}

----------------------------------------------------------------------------
(* Properties of the entry points *)

(* The handler is through the funds step: it has returned, or has written
   the cycle's record and its activity entry and stands before the next step *)
FundsSettled(p) == ClaimReturned(p) /\ loc[p].pc \in {"done", "buy", "swap"}

(* The cron handler and the handler of q met the same answers: the same
   claim result and, where q asks for it, the same wallet balance *)
SameConditions(q) ==
    /\ loc["cron"].claim = loc[q].claim
    /\ q = "admin7" => loc["cron"].walletBalance = loc[q].walletBalance

(* C28: a manual trigger that met the same conditions as a scheduled run is
   at the same step with the same amount, and has returned the same
   response when it has returned. *)
C28_ManualTriggerLikeCron ==
    \A q \in {"admin", "admin7"} :
        (FundsSettled("cron") /\ FundsSettled(q) /\ SameConditions(q)) =>
            /\ loc[q].pc = loc["cron"].pc
            /\ loc[q].solAmount = loc["cron"].solAmount
            /\ loc[q].response = loc["cron"].response

(* C29: a request to the cron route whose authorization header differs from
   the bearer form of the configured CRON_SECRET is answered 401 in the
   step that receives it, with no local of the pipeline set and no table
   changed, and its handler takes no step after that. *)
C29_CronSecretProtects ==
    [][ \A p \in Procs :
          (loc'[p].authMismatch /\ loc'[p] # loc[p]) =>
              /\ p = "cron" /\ env.cronSecret
              /\ loc'[p] = Return([IdleLoc EXCEPT !.authMismatch = TRUE], Unauthorized)
              /\ loc'[p].response.status = 401
              /\ tables' = tables
      ]_vars

(* A request with a wrong header was turned away and the store still holds
   exactly the records of the earlier cycle *)
C29_Witness ==
    /\ loc["cron"].authMismatch
    /\ loc["cron"].pc = "done"
    /\ loc["cron"].response = Unauthorized
    /\ <<buybacks, holdersTbl, distributions, activity_log>> = PriorStore

(* C30: a cycle run without PBTC_TOKEN_MINT that got as far as the ranking
   does not end with a success response and no recipient. *)
C30_MissingMintIsFatal ==
    \A p \in Procs :
        (~env.mint /\ loc[p].pc = "done" /\ loc[p].swap.success) =>
            ~(loc[p].response.success /\ loc[p].results = <<>>)

----------------------------------------------------------------------------
(* Properties of the snapshot replacement and of the activity log *)

(* The ranking of the cycle of p has returned and the handler has ended *)
RankedAndReturned(p) ==
    loc[p].pc = "done" /\ loc[p].response.kind \in {"no_holders", "distributed"}

(* C31: when a cycle whose ranking returned (holders or none) has ended, the
   holders table holds exactly the rows of that ranking, and every reward
   in it is stamped by this cycle: no row and no reward of an earlier cycle
   is left. *)
C31_SnapshotReplacedEveryCycle ==
    \A p \in Procs :
        RankedAndReturned(p) =>
            /\ Len(holdersTbl) = Len(loc[p].holders)
            /\ \A k \in 1..Len(holdersTbl) :
                  /\ holdersTbl[k].wallet_address = loc[p].holders[k].wallet
                  /\ holdersTbl[k].rank = loc[p].holders[k].rank
                  /\ \A r \in holdersTbl[k].last_reward : r.at = loc[p].buyback

FundsSteps == {"claim", "insert_buyback", "log_buyback"}

(* C32: the step by which a handler leaves fund acquisition, with an amount
   or without one, appends one entry of type buyback to the activity log. *)
C32_FundClaimEntryAlways ==
    [][ \A p \in Procs :
          (loc[p].pc \in FundsSteps /\ loc'[p].pc \notin FundsSteps) =>
              /\ Len(activity_log') = Len(activity_log) + 1
              /\ activity_log'[Len(activity_log')].type = "buyback"
      ]_vars

----------------------------------------------------------------------------
(* Properties of retryWithBackoff *)

(* C33: inside getTopHolders, a running retryWithBackoff has made at most
   maxRetries calls counting the one under way, every call after the first
   followed a failure with the 429 text, and a lookup that ended with
   another error, or with a rate limit on the last call, was the last call
   made: the error left retryWithBackoff. *)
C33_RetryOnlyRateLimitBounded ==
    \A p \in Procs :
        /\ loc[p].attempt + 1 <= MaxRetries
        /\ loc[p].attempt > 0 => loc[p].lastError = "http_429"
        /\ \A k \in 1..Len(loc[p].lookups) :
              loc[p].lookups[k] \in {"threw", "rate_limited"} =>
                  /\ k = Len(loc[p].lookups)
                  /\ loc[p].pc \notin {"gth_fetch", "gth_owner"}
                  /\ loc[p].lookups[k] = "rate_limited" => loc[p].attempt = MaxRetries - 1

(* The owner lookup of the second account was rate limited twice and then
   failed with a network error, which ended the pass *)
C33_Witness ==
    /\ loc["cron"].pc = "gth_ret"
    /\ loc["cron"].attempt = 2
    /\ loc["cron"].lastError = "http_429"
    /\ Len(loc["cron"].lookups) = 2
    /\ loc["cron"].lookups[2] = "threw"

----------------------------------------------------------------------------
(* Properties of the cycle record's end and of the amounts *)

(* C34: when a handler that created a cycle record has returned, the record
   is completed or failed. *)
C34_RecordReachesTerminalStatus ==
    \A p \in Procs :
        (loc[p].pc = "done" /\ loc[p].buyback # 0) =>
            \E k \in 1..Len(buybacks) :
                /\ buybacks[k].id = loc[p].buyback
                /\ buybacks[k].status \in TerminalStatuses

(* C35: every transfer distributeToHolders submits is for a positive whole
   number of lamports, and none is submitted when the balances add up to
   zero. *)
C35_NoEmptyTransfer ==
    \A p \in Procs :
        \A k \in 1..Len(loc[p].transfers) :
            /\ loc[p].transfers[k].lamports \in Nat
            /\ loc[p].transfers[k].lamports > 0
            /\ TotalHoldings(loc[p].holders) > 0

(* Two holders without balance and a positive amount: both got a failure
   result and nothing was submitted *)
C35_Witness ==
    /\ loc["cron"].pc = "dist_ret"
    /\ Len(loc["cron"].holders) = 2
    /\ TotalHoldings(loc["cron"].holders) = 0
    /\ loc["cron"].wsolAmount.n > 0
    /\ Len(loc["cron"].results) = 2
    /\ \A i \in 1..2 : ~loc["cron"].results[i].success
    /\ loc["cron"].transfers = <<>>

(* C36: buyPbtcWithSol makes at most one request to the venue per attempt
   and at most retries attempts, none without PBTC_TOKEN_MINT; it returns
   success exactly when its last attempt was confirmed, a failure result
   otherwise; and it always returns. *)
C36_BuyTerminatesWithinBudget ==
    /\ [](\A p \in Procs :
            /\ Len(loc[p].buyLog) <= loc[p].retries
            /\ ~env.mint => loc[p].buyLog = <<>>
            /\ \A k \in 1..(Len(loc[p].buyLog) - 1) : loc[p].buyLog[k].outcome # "confirmed"
            /\ loc[p].pc = "log_buy" =>
                  /\ loc[p].buy.tried
                  /\ loc[p].buy.success =
                        (/\ loc[p].buyLog # <<>>
                         /\ loc[p].buyLog[Len(loc[p].buyLog)].outcome = "confirmed"))
    /\ <>(loc["admin7"].pc = "log_buy")

(* Every one of three attempts failed, each in another way, and the call
   returned a failure *)
C36_Witness ==
    /\ loc["admin7"].pc = "log_buy"
    /\ loc["admin7"].retries = 3
    /\ Len(loc["admin7"].buyLog) = 3
    /\ loc["admin7"].buyLog[1].outcome = "venue_error"
    /\ loc["admin7"].buyLog[2].outcome = "network"
    /\ loc["admin7"].buyLog[3].outcome = "slippage"
    /\ ~loc["admin7"].buy.success

(* The lamports of the transfer submitted for the holder at place i *)
TransferredLamports(p, i) ==
    { loc[p].transfers[k].lamports :
        k \in { j \in 1..Len(loc[p].transfers) : loc[p].transfers[j].idx = i } }

(* C37: the amount a successful result reports is the number of lamports
   its transfer moved. *)
C37_ReportedEqualsTransferred ==
    \A p \in Procs :
        \A i \in 1..Len(loc[p].results) :
            loc[p].results[i].success =>
                \A moved \in TransferredLamports(p, i) :
                    loc[p].results[i].amount.n = moved * loc[p].results[i].amount.d

(* What the buy spent *)
ActualSpent(p) == IF loc[p].buy.success THEN loc[p].buy.solSpent ELSE Zero

(* C38: in a cycle that ran the buy and then the wrap, what the buy spent
   plus what was handed to the wrap is at most the acquired amount less the
   0.01 reserve. *)
C38_SplitWithinAcquiredLessReserve ==
    \A p \in Procs :
        (loc[p].buy.tried /\ loc[p].swap.tried) =>
            ActualSpent(p).n * loc[p].swap.input.d + loc[p].swap.input.n * ActualSpent(p).d
                <= (loc[p].solAmount - FeeReserve) * ActualSpent(p).d * loc[p].swap.input.d

(* Of 0.15 SOL, 0.135 went into the buy and 0.005 into the wrap *)
C38_Witness ==
    /\ loc["admin7"].solAmount = 150000000
    /\ loc["admin7"].buy.success
    /\ loc["admin7"].buy.solSpent = Whole(135000000)
    /\ loc["admin7"].swap.success
    /\ loc["admin7"].swap.input = Whole(5000000)

----------------------------------------------------------------------------
(* Properties of the access to the entry points *)

(* C39: with CRON_SECRET set, a request that arrives at any route without
   the matching bearer token is answered 401 and starts no cycle. *)
C39_NoCycleWithoutBearer ==
    [][ \A p \in Procs :
          (env.cronSecret /\ ArriveWith(p, MaxOverlap, FALSE)) =>
              /\ loc'[p].pc = "done"
              /\ loc'[p].response = Unauthorized
      ]_vars

====
